---- MODULE Spec2Model ----
(***************************************************************************)
(* Model of the repository layer of wyag (src/src/repo.rs): the           *)
(* UnvalidatedRepo -> Repo validation (Repo::new / TryFrom) and the        *)
(* multi-step RealRepoCreator::create, over an explicit filesystem.        *)
(*                                                                         *)
(* A path is a sequence of path components.  A file's contents are a      *)
(* sequence of lines, a line a sequence of tokens.  Every filesystem call  *)
(* of the code is one step of the calling process.                         *)
(***************************************************************************)
EXTENDS Integers, Sequences, FiniteSets, TLC

VARIABLES
    fs,      \* the filesystem: path -> node
    procs,   \* the processes that run against the path
    pc,      \* per process: the statement it is about to execute
    cur,     \* per process: the call in progress (operation, provider, fs at call,
             \* fs at the moment create's pre-flight checks were passed)
    cfg,     \* per process: the config value `T::load` returned
    hist     \* the completed calls, in order of return

vars == <<fs, procs, pc, cur, cfg, hist>>

\* How many calls (create / Repo::new) a behaviour holds at most.
MaxCalls == 2

AllProcs == {1, 2}

-----------------------------------------------------------------------------
(* Paths *)

Root == <<>>
Parent(p) == SubSeq(p, 1, Len(p) - 1)
Join(p, rel) == p \o rel

\* The path handed to create / Repo::new, and its parent directory.
ParentDir == <<"x">>
Target == <<"x", "test">>

\* UnvalidatedRepo::new: worktree = path, gitdir = path.join(".git")
UnvalidatedRepoNew(path) == [worktree |-> path, gitdir |-> Join(path, <<".git">>)]

TheRepo == UnvalidatedRepoNew(Target)
Worktree == TheRepo.worktree
Gitdir == TheRepo.gitdir

BranchesPath == Join(Gitdir, <<"branches">>)
ObjectsPath == Join(Gitdir, <<"objects">>)
RefsPath == Join(Gitdir, <<"refs">>)
TagsPath == Join(Gitdir, <<"refs", "tags">>)
HeadsPath == Join(Gitdir, <<"refs", "heads">>)
DescriptionPath == Join(Gitdir, <<"description">>)
HeadPath == Join(Gitdir, <<"HEAD">>)
ConfigPath == Join(Gitdir, <<"config">>)
\* An entry of the metadata directory that create does not know of.
ForeignPath == Join(Gitdir, <<"hooks">>)

Paths ==
    { ParentDir, Worktree, Gitdir, BranchesPath, ObjectsPath, RefsPath, TagsPath,
      HeadsPath, DescriptionPath, HeadPath, ConfigPath, ForeignPath }

GitdirPaths == { p \in Paths : Len(p) > Len(Gitdir) }

-----------------------------------------------------------------------------
(* File contents *)

DescriptionText ==
    << <<"Unnamed repository; edit this file 'description' to name the repository.">> >>

HeadText == << <<"ref:", "refs/heads/master">> >>

DefaultConfigBad ==
    << <<"[", "core", "]">>,
       <<"repositoryformatversion", "=", "1">>,
       <<"filemode", "=", "false">>,
       <<"bare", "=", "false">> >>

\* DefaultConfig.to_string()
DefaultConfig ==
    << <<"[", "core", "]">>,
       <<"repositoryformatversion", "=", "0">>,
       <<"filemode", "=", "false">>,
       <<"bare", "=", "false">> >>

\* Contents some other program left behind.
OtherText == << <<"something", "else">> >>

\* Config documents a metadata directory may hold before a call.
ConfigDocs ==
    { DefaultConfig,
      << <<"[", "core", "]">>, <<"repositoryformatversion", "=", "1">> >>,
      << <<"[", "core", "]">>, <<"bare", "=", "true">>,
         <<"repositoryformatversion", "=", "1", "0">> >>,
      << <<"[", "core", "]">>, <<"repositoryformatversion", "=", "0">>,
         <<"bare", "=", "true">>, <<"[", "user", "]">>, <<"name", "=", "me">> >>,
      << <<"[", "core", "]">>, <<"filemode", "=", "false">> >>,
      << <<"[", "user", "]">>, <<"repositoryformatversion", "=", "0">> >>,
      << <<"[", "core", "]">>, <<"repositoryformatversion", "=", "abc">> >>,
      << <<"[", "core", "]">>, <<"repositoryformatversion">> >>,
      << <<"[", "core">>, <<"repositoryformatversion", "=", "0">> >>,
      << >> }

-----------------------------------------------------------------------------
(* Filesystem *)

Absent == [kind |-> "absent", data |-> <<>>]
Dir == [kind |-> "dir", data |-> <<>>]
File(d) == [kind |-> "file", data |-> d]

\* Path::exists
Exists(f, p) == p = Root \/ f[p].kind # "absent"

IsDirLoose(f, p) == Exists(f, p)

\* Path::is_dir
IsDir(f, p) == p = Root \/ f[p].kind = "dir"

IsFile(f, p) == p # Root /\ f[p].kind = "file"

Entries(f, p) == { q \in Paths : Len(q) = Len(p) + 1 /\ Parent(q) = p /\ Exists(f, q) }

ReadDirCountDotted(f, p) == Cardinality(Entries(f, p)) + 1

ReadDirCountNone(f, p) == 0

\* fs::read_dir(p)?.count() of a directory p
ReadDirCount(f, p) == Cardinality(Entries(f, p))

\* The outcome of a filesystem call: whether it succeeded, the error, the
\* filesystem it leaves.
FsOk(f) == [ok |-> TRUE, err |-> "", fs |-> f]
FsErr(e, f) == [ok |-> FALSE, err |-> e, fs |-> f]

\* mkdir(2)
Mkdir(f, p) ==
    IF Exists(f, p) THEN FsErr("AlreadyExists", f)
    ELSE IF ~Exists(f, Parent(p)) THEN FsErr("NotFound", f)
    ELSE IF ~IsDir(f, Parent(p)) THEN FsErr("NotADirectory", f)
    ELSE FsOk([f EXCEPT ![p] = Dir])

\* DirBuilder::new().recursive(true).create(p): std's create_dir_all
RECURSIVE CreateDirAll(_, _)
CreateDirAll(f, p) ==
    IF p = Root THEN FsOk(f)
    ELSE LET first == Mkdir(f, p) IN
         IF first.ok THEN first
         ELSE IF first.err # "NotFound"
         THEN (IF IsDir(f, p) THEN FsOk(f) ELSE first)
         ELSE LET up == CreateDirAll(f, Parent(p)) IN
              IF ~up.ok THEN up
              ELSE LET again == Mkdir(up.fs, p) IN
                   IF again.ok THEN again
                   ELSE IF IsDir(up.fs, p) THEN FsOk(up.fs) ELSE again

\* PathHelper::ensure_dir_exists
EnsureDirExists(f, p) == CreateDirAll(f, p)

FsWriteAppend(f, p, data) ==
    IF ~Exists(f, Parent(p)) THEN FsErr("NotFound", f)
    ELSE IF ~IsDir(f, Parent(p)) THEN FsErr("NotADirectory", f)
    ELSE IF IsDir(f, p) THEN FsErr("IsADirectory", f)
    ELSE FsOk([f EXCEPT ![p] = File(f[p].data \o data)])

\* fs::write(p, data): create or truncate, then write all of data
FsWrite(f, p, data) ==
    IF ~Exists(f, Parent(p)) THEN FsErr("NotFound", f)
    ELSE IF ~IsDir(f, Parent(p)) THEN FsErr("NotADirectory", f)
    ELSE IF IsDir(f, p) THEN FsErr("IsADirectory", f)
    ELSE FsOk([f EXCEPT ![p] = File(data)])

FsReadTruncating(f, p) ==
    IF IsFile(f, p)
    THEN [ok |-> TRUE, err |-> "", fs |-> [f EXCEPT ![p] = File(<<>>)], data |-> f[p].data]
    ELSE [ok |-> FALSE, err |-> "read", fs |-> f, data |-> <<>>]

\* Reading a whole file (inside configparser's Ini::load)
FsRead(f, p) ==
    IF IsFile(f, p)
    THEN [ok |-> TRUE, err |-> "", fs |-> f, data |-> f[p].data]
    ELSE [ok |-> FALSE, err |-> "read", fs |-> f, data |-> <<>>]

-----------------------------------------------------------------------------
(* Configuration providers *)

\* The value `e` of an Option: <<>> is None, <<v>> is Some(v).
None == <<>>
Some(v) == <<v>>

DigitOf(t) ==
    CASE t = "0" -> 0 [] t = "1" -> 1 [] t = "2" -> 2 [] t = "3" -> 3 [] t = "4" -> 4
      [] t = "5" -> 5 [] t = "6" -> 6 [] t = "7" -> 7 [] t = "8" -> 8 [] t = "9" -> 9
      [] OTHER -> -1

RECURSIVE DigitsValue(_, _)
DigitsValue(chars, n) ==
    IF n = 0 THEN 0 ELSE 10 * DigitsValue(chars, n - 1) + DigitOf(chars[n])

\* str::parse::<u64> of a value given as its characters
ParseU64(chars) ==
    IF Len(chars) > 0 /\ \A i \in 1..Len(chars) : DigitOf(chars[i]) >= 0
    THEN [ok |-> TRUE, value |-> DigitsValue(chars, Len(chars))]
    ELSE [ok |-> FALSE, value |-> 0]

\* The first index of a line that holds token t, 0 if none does.
IndexOf(line, t) ==
    IF \E j \in 1..Len(line) : line[j] = t
    THEN CHOOSE j \in 1..Len(line) : line[j] = t /\ \A k \in 1..(j - 1) : line[k] # t
    ELSE 0

\* configparser's Ini::load on the text of a file: section headers, key = value
\* lines and bare keys; keys before any header go to the section "default".
RECURSIVE IniParse(_, _, _, _)
IniParse(lines, i, section, map) ==
    IF i > Len(lines) THEN [ok |-> TRUE, map |-> map]
    ELSE LET line == lines[i] IN
         IF Len(line) = 0 THEN IniParse(lines, i + 1, section, map)
         ELSE IF line[1] = "["
         THEN LET close == IndexOf(line, "]") IN
              IF close = 0 THEN [ok |-> FALSE, map |-> {}]
              ELSE IniParse(lines, i + 1, (IF close = 2 THEN "" ELSE line[2]), map)
         ELSE LET hasValue == Len(line) >= 2 /\ line[2] = "="
                  entry == [section |-> section, key |-> line[1],
                            value |-> IF hasValue
                                      THEN Some(SubSeq(line, 3, Len(line)))
                                      ELSE None]
                  kept == { e \in map : ~(e.section = section /\ e.key = line[1]) }
              IN IniParse(lines, i + 1, section, kept \cup {entry})

\* A loaded configuration: which provider holds it, and what it holds.
IniConfig(map) == [prov |-> "Ini", map |-> map, version |-> 0]
FakeConfig(v) == [prov |-> "Fake", map |-> {}, version |-> v]
NoConfig == [prov |-> "none", map |-> {}, version |-> 0]

\* tests::FakeConfig::load returns this version whatever the path holds.
FakeVersion == 1

\* A result: Ok(Repo {inner, config}) or Err(Error::kind(..)).
Ok(inner, config) ==
    [kind |-> "Ok", path |-> inner.worktree, version |-> None, msg |-> "",
     config |-> config]
Err(kind, path, version, msg) ==
    [kind |-> kind, path |-> path, version |-> version, msg |-> msg,
     config |-> NoConfig]

NotGitRepository(path) == Err("NotGitRepository", path, None, "")
ConfigFileMissing == Err("ConfigFileMissing", Root, None, "")
UnsupportedVersion(v) == Err("UnsupportedVersion", Root, v, "")
InvalidConfig(msg) == Err("InvalidConfig", Root, None, msg)
IoWrongVariant(msg) == Err("InvalidConfig", Root, None, msg)

Io(msg) == Err("Io", Root, None, msg)
NotADirectory(path) == Err("NotADirectory", path, None, "")
NotEmpty(path) == Err("NotEmpty", path, None, "")

\* Ini::getuint of the configparser crate: Ok(None) when the key is not set,
\* Err when its value is no unsigned integer.
IniGetUint(map, section, field) ==
    LET hits == { e \in map : e.section = section /\ e.key = field } IN
    IF hits = {} THEN [ok |-> TRUE, value |-> None]
    ELSE LET e == CHOOSE x \in hits : TRUE IN
         IF e.value = None THEN [ok |-> TRUE, value |-> None]
         ELSE LET n == ParseU64(e.value[1]) IN
              IF n.ok THEN [ok |-> TRUE, value |-> Some(n.value)]
              ELSE [ok |-> FALSE, value |-> None]

GetUintAbsentIsInvalid(config, section, field) ==
    IF config.prov = "Fake" THEN [ok |-> TRUE, value |-> config.version, err |-> NoConfig]
    ELSE LET got == IniGetUint(config.map, section, field) IN
         IF ~got.ok \/ got.value = None
         THEN [ok |-> FALSE, value |-> 0, err |-> InvalidConfig("getuint")]
         ELSE [ok |-> TRUE, value |-> got.value[1], err |-> NoConfig]

\* Config::getuint, for Ini (repo.rs 103-107) and for the tests' FakeConfig
GetUint(config, section, field) ==
    IF config.prov = "Fake" THEN [ok |-> TRUE, value |-> config.version, err |-> NoConfig]
    ELSE LET got == IniGetUint(config.map, section, field) IN
         IF ~got.ok THEN [ok |-> FALSE, value |-> 0, err |-> InvalidConfig("getuint")]
         ELSE IF got.value = None
         THEN [ok |-> FALSE, value |-> 0, err |-> UnsupportedVersion(None)]
         ELSE [ok |-> TRUE, value |-> got.value[1], err |-> NoConfig]

VersionAtMostOne(version) == version <= 1

\* try_from's `version != 0` test, negated: the versions it lets through
VersionSupported(version) == version = 0

-----------------------------------------------------------------------------
(* Initial filesystems *)

NothingThere == [p \in Paths |-> Absent]

With(f, p, node) == [f EXCEPT ![p] = node]

\* The worktree is a directory (and so is its parent); nothing below it.
BareWorktree == With(With(NothingThere, ParentDir, Dir), Worktree, Dir)

\* The metadata directories a call may find: each scaffold directory there or
\* not, each default file absent, as create writes it, or different, a config
\* that is absent, a document, or a directory, and a foreign entry or none.
PopulatedGitdirs ==
    { [p \in Paths |->
          CASE p = BranchesPath -> b
            [] p = ObjectsPath -> o
            [] p = RefsPath -> (IF r = 0 THEN Absent ELSE Dir)
            [] p = TagsPath -> (IF r \in {2, 4} THEN Dir ELSE Absent)
            [] p = HeadsPath -> (IF r \in {3, 4} THEN Dir ELSE Absent)
            [] p = DescriptionPath -> d
            [] p = HeadPath -> h
            [] p = ConfigPath -> c
            [] p = ForeignPath -> x
            [] OTHER -> Dir] :
        b \in {Absent, Dir}, o \in {Absent, Dir}, r \in 0..4,
        d \in {Absent, File(OtherText)},
        h \in {Absent, File(HeadText)},
        c \in {Absent, Dir} \cup { File(doc) : doc \in ConfigDocs },
        x \in {Absent, File(OtherText)} }

InitialFilesystems ==
    { NothingThere,
      With(NothingThere, ParentDir, File(OtherText)),
      With(NothingThere, ParentDir, Dir),
      With(With(NothingThere, ParentDir, Dir), Worktree, File(OtherText)),
      BareWorktree,
      With(BareWorktree, Gitdir, File(OtherText)) }
    \cup PopulatedGitdirs

-----------------------------------------------------------------------------
(* State machine *)

Providers == {"Ini", "Fake"}

IdleCall == [op |-> "none", prov |-> "none", pre |-> NothingThere, checked |-> NothingThere]

InitWith(ps) ==
    /\ fs \in InitialFilesystems
    /\ procs = ps
    /\ pc = [p \in AllProcs |-> "idle"]
    /\ cur = [p \in AllProcs |-> IdleCall]
    /\ cfg = [p \in AllProcs |-> NoConfig]
    /\ hist = <<>>

\* One process: calls follow one another.
Init == InitWith({1})

Busy == { p \in AllProcs : pc[p] # "idle" }

\* Process p moves on to statement `next`, leaving filesystem f2.
Goto(p, next, f2) ==
    /\ fs' = f2
    /\ pc' = [pc EXCEPT ![p] = next]
    /\ UNCHANGED <<procs, cur, cfg, hist>>

\* Process p's create has passed the checks of repo.rs 185-200 and goes on to
\* the scaffold, leaving filesystem f2.
PassPreflight(p, f2) ==
    /\ fs' = f2
    /\ pc' = [pc EXCEPT ![p] = "branches"]
    /\ cur' = [cur EXCEPT ![p].checked = f2]
    /\ UNCHANGED <<procs, cfg, hist>>

\* Process p's call returns res from statement pc[p], leaving filesystem f2;
\* iofail tells whether a filesystem operation of the call failed.
Return(p, res, f2, iofail) ==
    /\ fs' = f2
    /\ pc' = [pc EXCEPT ![p] = "idle"]
    /\ cur' = [cur EXCEPT ![p] = IdleCall]
    /\ cfg' = [cfg EXCEPT ![p] = NoConfig]
    /\ hist' = Append(hist, [proc |-> p, op |-> cur[p].op, prov |-> cur[p].prov,
                             pre |-> cur[p].pre, post |-> f2, res |-> res,
                             iofail |-> iofail, at |-> pc[p],
                             checked |-> cur[p].checked])
    /\ UNCHANGED procs

\* A filesystem operation the environment may make fail (permissions, a full
\* disk): `fault` says it does.
Attempt(fault, outcome, f) == IF fault THEN FsErr("environment", f) ELSE outcome

\* A caller invokes RealRepoCreator::create(path) (init.rs 18).
CallCreate(p) ==
    /\ p \in procs
    /\ pc[p] = "idle"
    /\ Len(hist) + Cardinality(Busy) < MaxCalls
    /\ pc' = [pc EXCEPT ![p] = "worktree_exists"]
    /\ cur' = [cur EXCEPT ![p] = [op |-> "create", prov |-> "Ini", pre |-> fs,
                                  checked |-> NothingThere]]
    /\ UNCHANGED <<fs, procs, cfg, hist>>

\* A caller invokes Repo::<T>::new(path), T the Ini or the tests' FakeConfig.
CallNew(p) ==
    /\ p \in procs
    /\ pc[p] = "idle"
    /\ Len(hist) + Cardinality(Busy) < MaxCalls
    /\ \E prov \in Providers :
          cur' = [cur EXCEPT ![p] = [op |-> "new", prov |-> prov, pre |-> fs,
                                     checked |-> NothingThere]]
    /\ pc' = [pc EXCEPT ![p] = "try_from"]
    /\ UNCHANGED <<fs, procs, cfg, hist>>

\* create: `if repo.worktree.exists()`
CreateWorktreeExists(p) ==
    /\ pc[p] = "worktree_exists"
    /\ IF Exists(fs, Worktree)
       THEN Goto(p, "worktree_is_dir", fs)
       ELSE Goto(p, "ensure_worktree", fs)

\* create: `if !repo.worktree.is_dir() { return Err(NotADirectory) }`
CreateWorktreeIsDir(p) ==
    /\ pc[p] = "worktree_is_dir"
    /\ IF ~IsDir(fs, Worktree)
       THEN Return(p, NotADirectory(Worktree), fs, FALSE)
       ELSE Goto(p, "gitdir_exists", fs)

\* create: `if repo.gitdir.exists() && ..`
CreateGitdirExists(p) ==
    /\ pc[p] = "gitdir_exists"
    /\ IF Exists(fs, Gitdir)
       THEN Goto(p, "read_dir", fs)
       ELSE PassPreflight(p, fs)

ReadDirLenient(f, p) == FsOk(f)

\* fs::read_dir(p), which fails on anything but a directory
ReadDir(f, p) == IF IsDir(f, p) THEN FsOk(f) ELSE FsErr("NotADirectory", f)

\* create: `fs::read_dir(&repo.gitdir).map_err(Io)?.count() != 0`
CreateReadDir(p) ==
    /\ pc[p] = "read_dir"
    /\ \E fault \in BOOLEAN :
          LET r == Attempt(fault, ReadDir(fs, Gitdir), fs) IN
          IF ~r.ok THEN Return(p, Io(r.err), r.fs, TRUE)
          ELSE IF ReadDirCount(fs, Gitdir) # 0
          THEN Return(p, NotEmpty(Gitdir), r.fs, FALSE)
          ELSE PassPreflight(p, r.fs)

\* create: `PathHelper::ensure_dir_exists(&repo.worktree).map_err(Io)?`
CreateWorktree(p) ==
    /\ pc[p] = "ensure_worktree"
    /\ \E fault \in BOOLEAN :
          LET r == Attempt(fault, EnsureDirExists(fs, Worktree), fs) IN
          IF ~r.ok THEN Return(p, Io(r.err), r.fs, TRUE)
          ELSE PassPreflight(p, r.fs)

\* The four scaffold directories, in the order create makes them, and the
\* three default files, in the order it writes them.
ScaffoldDirs == <<"branches", "objects", "tags", "heads">>
DefaultFiles == <<"description", "HEAD", "config">>

ScaffoldPath(step) ==
    CASE step = "branches" -> BranchesPath
      [] step = "objects" -> ObjectsPath
      [] step = "tags" -> TagsPath
      [] step = "heads" -> HeadsPath

DefaultFilePath(step) ==
    CASE step = "description" -> DescriptionPath
      [] step = "HEAD" -> HeadPath
      [] step = "config" -> ConfigPath

DefaultFileText(step) ==
    CASE step = "description" -> DescriptionText
      [] step = "HEAD" -> HeadText
      [] step = "config" -> DefaultConfig

AfterStepSkippingHeads(step) ==
    CASE step = "branches" -> "objects"
      [] step = "objects" -> "tags"
      [] step = "tags" -> "description"
      [] step = "heads" -> "description"
      [] step = "description" -> "HEAD"
      [] step = "HEAD" -> "config"
      [] step = "config" -> "try_from"

\* The statement that follows `step` in create.
AfterStep(step) ==
    CASE step = "branches" -> "objects"
      [] step = "objects" -> "tags"
      [] step = "tags" -> "heads"
      [] step = "heads" -> "description"
      [] step = "description" -> "HEAD"
      [] step = "HEAD" -> "config"
      [] step = "config" -> "try_from"

\* create: `PathHelper::ensure_dir_exists(repo.gitdir.join(..)).map_err(Io)?`
CreateScaffoldDir(p) ==
    /\ \E i \in 1..Len(ScaffoldDirs) : pc[p] = ScaffoldDirs[i]
    /\ \E fault \in BOOLEAN :
          LET r == Attempt(fault, EnsureDirExists(fs, ScaffoldPath(pc[p])), fs) IN
          IF ~r.ok THEN Return(p, Io(r.err), r.fs, TRUE)
          ELSE Goto(p, AfterStep(pc[p]), r.fs)

\* create: `fs::write(repo.gitdir.join(..), ..).map_err(Io)?`
CreateDefaultFile(p) ==
    /\ \E i \in 1..Len(DefaultFiles) : pc[p] = DefaultFiles[i]
    /\ \E fault \in BOOLEAN :
          LET r == Attempt(fault,
                           FsWrite(fs, DefaultFilePath(pc[p]), DefaultFileText(pc[p])),
                           fs) IN
          IF ~r.ok THEN Return(p, Io(r.err), r.fs, TRUE)
          ELSE Goto(p, AfterStep(pc[p]), r.fs)

\* try_from: `if !inner.worktree.is_dir() { return Err(NotGitRepository) }`
ValidateWorktree(p) ==
    /\ pc[p] = "try_from"
    /\ IF ~IsDir(fs, Worktree)
       THEN Return(p, NotGitRepository(Worktree), fs, FALSE)
       ELSE Goto(p, "load", fs)

ConfigNeverMissing(f, path) == FALSE

\* Ini::load: `!path.as_ref().exists()`
ConfigMissing(f, path) == ~Exists(f, path)

\* try_from: `T::load(inner.gitdir.join("config"))?`, up to the existence test
\* of Ini::load; FakeConfig::load returns its value without looking at the path.
ValidateLoad(p) ==
    /\ pc[p] = "load"
    /\ IF cur[p].prov = "Fake"
       THEN /\ cfg' = [cfg EXCEPT ![p] = FakeConfig(FakeVersion)]
            /\ pc' = [pc EXCEPT ![p] = "getuint"]
            /\ UNCHANGED <<fs, procs, cur, hist>>
       ELSE IF ConfigMissing(fs, ConfigPath)
       THEN Return(p, ConfigFileMissing, fs, FALSE)
       ELSE Goto(p, "load_read", fs)

\* Ini::load: `config.load(path).map_err(InvalidConfig)?`
ValidateLoadRead(p) ==
    /\ pc[p] = "load_read"
    /\ \E fault \in BOOLEAN :
          LET r == IF fault
                   THEN [ok |-> FALSE, err |-> "environment", fs |-> fs, data |-> <<>>]
                   ELSE FsRead(fs, ConfigPath)
              parsed == IniParse(r.data, 1, "default", {})
          IN IF ~r.ok THEN Return(p, InvalidConfig(r.err), r.fs, TRUE)
             ELSE IF ~parsed.ok THEN Return(p, InvalidConfig("parse"), r.fs, FALSE)
             ELSE /\ cfg' = [cfg EXCEPT ![p] = IniConfig(parsed.map)]
                  /\ pc' = [pc EXCEPT ![p] = "getuint"]
                  /\ fs' = r.fs
                  /\ UNCHANGED <<procs, cur, hist>>

\* try_from: `config.getuint("core", "repositoryformatversion")?`, the version
\* test and `Ok(Self { inner, config })`
ValidateVersion(p) ==
    /\ pc[p] = "getuint"
    /\ LET got == GetUint(cfg[p], "core", "repositoryformatversion") IN
       IF ~got.ok THEN Return(p, got.err, fs, FALSE)
       ELSE IF ~VersionSupported(got.value)
       THEN Return(p, UnsupportedVersion(Some(got.value)), fs, FALSE)
       ELSE Return(p, Ok(TheRepo, cfg[p]), fs, FALSE)

Next ==
    \/ \E p \in AllProcs : CallCreate(p)
    \/ \E p \in AllProcs : CallNew(p)
    \/ \E p \in AllProcs : CreateWorktreeExists(p)
    \/ \E p \in AllProcs : CreateWorktreeIsDir(p)
    \/ \E p \in AllProcs : CreateGitdirExists(p)
    \/ \E p \in AllProcs : CreateReadDir(p)
    \/ \E p \in AllProcs : CreateWorktree(p)
    \/ \E p \in AllProcs : CreateScaffoldDir(p)
    \/ \E p \in AllProcs : CreateDefaultFile(p)
    \/ \E p \in AllProcs : ValidateWorktree(p)
    \/ \E p \in AllProcs : ValidateLoad(p)
    \/ \E p \in AllProcs : ValidateLoadRead(p)
    \/ \E p \in AllProcs : ValidateVersion(p)

Spec == Init /\ [][Next]_vars

\* A step of the call process p is in: anything but the start of a call.
Step(p) ==
    \/ CreateWorktreeExists(p) \/ CreateWorktreeIsDir(p) \/ CreateGitdirExists(p)
    \/ CreateReadDir(p) \/ CreateWorktree(p) \/ CreateScaffoldDir(p)
    \/ CreateDefaultFile(p) \/ ValidateWorktree(p) \/ ValidateLoad(p)
    \/ ValidateLoadRead(p) \/ ValidateVersion(p)

\* The filesystems the runs checked for termination start from: those without
\* a populated gitdir, and the populated ones that differ in branches, HEAD
\* and config (create stops at its listing in every populated one).
FairFilesystems ==
    { f \in InitialFilesystems :
        /\ f[ObjectsPath] = Absent /\ f[RefsPath] = Absent
        /\ f[DescriptionPath] = Absent /\ f[ForeignPath] = Absent }

InitFair == InitWith({1}) /\ fs \in FairFilesystems

\* create and try_from are straight-line blocking code: a call that has
\* started keeps taking its next step.
SpecFair == InitFair /\ [][Next]_vars /\ \A p \in AllProcs : WF_vars(Step(p))

\* The filesystems two racing processes start from: the path absent, the
\* worktree without a gitdir, or with an empty one.
RaceFilesystems ==
    { NothingThere,
      BareWorktree,
      With(BareWorktree, Gitdir, Dir) }

\* Two processes, each a `wyag init` or a validation of the same path; their
\* filesystem calls interleave.
InitConc == InitWith({1, 2}) /\ fs \in RaceFilesystems

SpecConc == InitConc /\ [][Next]_vars

-----------------------------------------------------------------------------
(* Vocabulary of the properties *)

Completed == 1..Len(hist)

\* What a filesystem holds at a path.
NothingAt(f, p) == f[p].kind = "absent"
DirAt(f, p) == f[p].kind = "dir"
FileAt(f, p) == f[p].kind = "file"

\* The entries of directory p.
Children(f, p) == { q \in Paths : Parent(q) = p /\ ~NothingAt(f, q) }

\* The state of the metadata directory and of everything in it.
GitdirState(f) == [p \in GitdirPaths \cup {Gitdir} |-> f[p]]

\* The layout of section 6 of the specification: the four scaffold
\* directories (and refs), the three default files, nothing else.
ScaffoldLayout ==
    [p \in GitdirPaths \cup {Gitdir} |->
        CASE p = DescriptionPath -> File(DescriptionText)
          [] p = HeadPath -> File(HeadText)
          [] p = ConfigPath -> File(DefaultConfig)
          [] p = ForeignPath -> Absent
          [] OTHER -> Dir]

\* The version a provider reports for the config of filesystem f: None when
\* it loads nothing, or the document sets no usable version.
ReportedVersion(prov, f) ==
    IF prov = "Fake" THEN Some(FakeVersion)
    ELSE IF ~FileAt(f, ConfigPath) THEN None
    ELSE LET parsed == IniParse(f[ConfigPath].data, 1, "default", {}) IN
         IF ~parsed.ok THEN None
         ELSE LET got == IniGetUint(parsed.map, "core", "repositoryformatversion") IN
              IF got.ok THEN got.value ELSE None

DefaultFilePaths == {DescriptionPath, HeadPath, ConfigPath}

\* Calls i and i+1 are two creates in succession on a path absent before the
\* first, and no filesystem operation of either failed.
TwoCreatesOnFreshPath(i) ==
    /\ i + 1 \in Completed
    /\ hist[i].op = "create" /\ hist[i + 1].op = "create"
    /\ NothingAt(hist[i].pre, Worktree)
    /\ ~hist[i].iofail /\ ~hist[i + 1].iofail

\* create found the worktree a directory and the metadata directory holding
\* at least one entry.
NonEmptyGitdir(f) ==
    DirAt(f, Worktree) /\ DirAt(f, Gitdir) /\ Children(f, Gitdir) # {}

-----------------------------------------------------------------------------
(* Properties *)

\* C1 as stated: two creates in succession on the same fresh path, without I/O
\* failure, both succeed and leave config, HEAD and description byte-identical.
C1_BothCreatesSucceed ==
    \A i \in Completed :
        TwoCreatesOnFreshPath(i) =>
            /\ hist[i].res.kind = "Ok"
            /\ hist[i + 1].res.kind = "Ok"
            /\ \A p \in DefaultFilePaths : hist[i + 1].post[p] = hist[i].post[p]

\* C1 as amended: of two creates in succession on the same fresh path, without
\* I/O failure, the first succeeds and the second returns NotEmpty(gitdir);
\* config, HEAD and description are byte-identical after each call.
C1_SecondCreateNotEmpty ==
    \A i \in Completed :
        TwoCreatesOnFreshPath(i) =>
            /\ hist[i].res.kind = "Ok"
            /\ hist[i + 1].res = NotEmpty(Gitdir)
            /\ \A p \in DefaultFilePaths :
                  /\ hist[i].post[p].kind = "file"
                  /\ hist[i + 1].post[p] = hist[i].post[p]

C1_Witness ==
    \E i \in Completed :
        TwoCreatesOnFreshPath(i) /\ hist[i + 1].res.kind = "NotEmpty"

C3_NonDirectoryGuard ==
    \A i \in Completed :
        (/\ hist[i].op = "create"
         /\ ~NothingAt(hist[i].pre, Worktree)
         /\ ~DirAt(hist[i].pre, Worktree)) =>
            /\ hist[i].res = NotADirectory(Worktree)
            /\ hist[i].post = hist[i].pre

C3_Witness ==
    \E i \in Completed :
        /\ hist[i].op = "create"
        /\ FileAt(hist[i].pre, Worktree)
        /\ hist[i].res.kind = "NotADirectory"

\* C4: create on an absent path, without I/O failure, leaves the worktree a
\* directory, the four scaffold directories, the three default files with
\* their fixed contents (config non-empty, declaring version 0), and returns a
\* validated repository whose config reports version 0.
C4_CreateOnAbsentPath ==
    \A i \in Completed :
        (hist[i].op = "create" /\ NothingAt(hist[i].pre, Worktree) /\ ~hist[i].iofail) =>
            LET post == hist[i].post
                res == hist[i].res
            IN /\ DirAt(post, Worktree)
               /\ \A d \in {BranchesPath, ObjectsPath, TagsPath, HeadsPath} : DirAt(post, d)
               /\ post[DescriptionPath] = File(DescriptionText)
               /\ post[HeadPath] = File(HeadText)
               /\ post[ConfigPath] = File(DefaultConfig)
               /\ Len(post[ConfigPath].data) > 0
               /\ ReportedVersion("Ini", post) = Some(0)
               /\ GitdirState(post) = ScaffoldLayout
               /\ res.kind = "Ok"
               /\ res.path = Worktree
               /\ GetUint(res.config, "core", "repositoryformatversion").ok
               /\ GetUint(res.config, "core", "repositoryformatversion").value = 0

C4_Witness ==
    \E i \in Completed :
        /\ hist[i].op = "create"
        /\ hist[i].pre = NothingThere
        /\ hist[i].res.kind = "Ok"

\* The call validated a worktree that is a directory, its provider loaded a
\* configuration without I/O failure, and that configuration reports a
\* version other than 0.
ValidatedNonZeroVersion(h) ==
    /\ h.op = "new"
    /\ DirAt(h.pre, Worktree)
    /\ ~h.iofail
    /\ ReportedVersion(h.prov, h.pre) # None
    /\ ReportedVersion(h.prov, h.pre) # Some(0)

\* C5: validation of an existing worktree whose configuration loads and
\* reports a version v other than 0 fails with UnsupportedVersion(Some(v)),
\* whatever else the configuration holds.
C5_VersionGate ==
    \A i \in Completed :
        ValidatedNonZeroVersion(hist[i]) =>
            hist[i].res = UnsupportedVersion(ReportedVersion(hist[i].prov, hist[i].pre))

C5_Witness ==
    \E i \in Completed :
        /\ ValidatedNonZeroVersion(hist[i])
        /\ hist[i].prov = "Ini"
        /\ hist[i].res = UnsupportedVersion(Some(10))

\* The statements of try_from after its worktree test.
AfterWorktreeTest == {"load", "load_read", "getuint"}

\* C6: validation of a path that is no existing directory fails with
\* NotGitRepository(worktree) whatever the provider; the config is never loaded.
C6_MissingWorktree ==
    /\ \A i \in Completed :
          (hist[i].op = "new" /\ ~DirAt(hist[i].pre, Worktree)) =>
              hist[i].res = NotGitRepository(Worktree)
    /\ \A p \in AllProcs :
          (cur[p].op = "new" /\ ~DirAt(cur[p].pre, Worktree)) =>
              pc[p] \notin AfterWorktreeTest

C6_Witness ==
    \E i \in Completed :
        /\ hist[i].op = "new"
        /\ hist[i].prov = "Fake"
        /\ FileAt(hist[i].pre, Worktree)
        /\ hist[i].res.kind = "NotGitRepository"

\* Validation with the Ini provider of a worktree and gitdir that are
\* directories, with nothing at gitdir/config.
NoConfigFile(h) ==
    /\ h.op = "new" /\ h.prov = "Ini"
    /\ DirAt(h.pre, Worktree) /\ DirAt(h.pre, Gitdir)
    /\ NothingAt(h.pre, ConfigPath)

\* C7: with the Ini provider, validation of an existing worktree and gitdir
\* with no file at gitdir/config returns ConfigFileMissing.
C7_ConfigFileMissing ==
    \A i \in Completed : NoConfigFile(hist[i]) => hist[i].res = ConfigFileMissing

C7_Witness ==
    \E i \in Completed :
        /\ NoConfigFile(hist[i])
        /\ FileAt(hist[i].pre, HeadPath)
        /\ hist[i].res.kind = "ConfigFileMissing"

\* C8: every validated repository a call returns was built over a worktree
\* that is a directory and a gitdir holding a config document that declares
\* repositoryformatversion 0, and carries that document.
C8_TypeState ==
    \A i \in Completed :
        hist[i].res.kind = "Ok" =>
            /\ DirAt(hist[i].post, Worktree)
            /\ DirAt(hist[i].post, Gitdir)
            /\ FileAt(hist[i].post, ConfigPath)
            /\ ReportedVersion("Ini", hist[i].post) = Some(0)
            /\ hist[i].res.config =
                  IniConfig(IniParse(hist[i].post[ConfigPath].data, 1, "default", {}).map)
            /\ hist[i].res.path = Worktree

C8_Witness ==
    \E i \in Completed :
        /\ hist[i].op = "new"
        /\ hist[i].res.kind = "Ok"
        /\ hist[i].pre[ConfigPath] # File(DefaultConfig)

\* A step of try_from (in Repo::new or at the end of create) by process p.
ValidationStep(p) ==
    pc[p] \in AfterWorktreeTest \cup {"try_from"} /\ pc'[p] # pc[p]

C9_CallsReadOnly ==
    \A i \in Completed : hist[i].op = "new" => hist[i].post = hist[i].pre

C9_StepsReadOnly == \A p \in AllProcs : ValidationStep(p) => fs' = fs

\* C9: validation writes nothing: no step of try_from changes the filesystem,
\* and after Repo::new, whatever it returns, the filesystem is as before.
C9_ValidationReadOnly == []C9_CallsReadOnly /\ [][C9_StepsReadOnly]_vars

C9_Witness ==
    \E i \in Completed :
        /\ hist[i].op = "new" /\ hist[i].prov = "Ini"
        /\ hist[i].res.kind = "UnsupportedVersion"
        /\ hist[i].post = hist[i].pre

\* create found the worktree a directory and the gitdir an empty directory.
EmptyGitdir(f) ==
    DirAt(f, Worktree) /\ DirAt(f, Gitdir) /\ Children(f, Gitdir) = {}

\* C10: create on an existing worktree with an existing, empty gitdir, without
\* I/O failure, succeeds and leaves the gitdir as create leaves it on an absent
\* path: the four directories and the three default files.
C10_EmptyGitdirSameEndState ==
    \A i \in Completed :
        (hist[i].op = "create" /\ ~hist[i].iofail) =>
            /\ EmptyGitdir(hist[i].pre) =>
                  hist[i].res.kind = "Ok" /\ GitdirState(hist[i].post) = ScaffoldLayout
            /\ NothingAt(hist[i].pre, Worktree) =>
                  hist[i].res.kind = "Ok" /\ GitdirState(hist[i].post) = ScaffoldLayout

C10_Witness ==
    \E i \in Completed :
        /\ hist[i].op = "create"
        /\ EmptyGitdir(hist[i].pre)
        /\ hist[i].res.kind = "Ok"

\* The statements of try_from.
ValidationStatements == AfterWorktreeTest \cup {"try_from"}

\* The call is a create that got to its final `repo.try_into()`: the
\* pre-flight passed and every directory creation and file write succeeded.
ReachedFinalValidation(h) == h.op = "create" /\ h.at \in ValidationStatements

CreateIoStatements ==
    {"read_dir", "ensure_worktree", "branches", "objects", "tags", "heads",
     "description", "HEAD", "config"}

StatementNo(st) ==
    CASE st = "branches" -> 1 [] st = "objects" -> 2 [] st = "tags" -> 3
      [] st = "heads" -> 4 [] st = "description" -> 5 [] st = "HEAD" -> 6
      [] st = "config" -> 7 [] OTHER -> 0

\* What statement number k of create leaves behind.
MadeBy(k) ==
    CASE k = 1 -> {Gitdir, BranchesPath} [] k = 2 -> {ObjectsPath}
      [] k = 3 -> {RefsPath, TagsPath} [] k = 4 -> {HeadsPath}
      [] k = 5 -> {DescriptionPath} [] k = 6 -> {HeadPath} [] k = 7 -> {ConfigPath}

\* A filesystem operation of the create failed, at one of the statements that
\* map the error to Io.
CreateFailedIo(h) == h.op = "create" /\ h.iofail /\ h.at \in CreateIoStatements

\* C12: a create one of whose filesystem operations fails returns Io, has
\* performed none of the later steps, and leaves what the earlier steps made
\* (and everything that was there before) in place.
C12_IoAbortsWithoutRollback ==
    \A i \in Completed :
        CreateFailedIo(hist[i]) =>
            LET h == hist[i]
                n == StatementNo(h.at)
            IN /\ h.res.kind = "Io"
               /\ \A k \in 1..7 : \A q \in MadeBy(k) :
                     IF k < n THEN h.post[q] = ScaffoldLayout[q]
                              ELSE h.post[q] = h.pre[q]
               /\ n >= 1 => DirAt(h.post, Worktree)
               /\ \A q \in Paths : ~NothingAt(h.pre, q) => h.post[q] = h.pre[q]

C12_Witness ==
    \E i \in Completed :
        /\ CreateFailedIo(hist[i])
        /\ hist[i].at = "HEAD"
        /\ NothingAt(hist[i].pre, Worktree)
        /\ hist[i].res.kind = "Io"
        /\ FileAt(hist[i].post, DescriptionPath)
        /\ NothingAt(hist[i].post, HeadPath)

\* C13: in a single-process run create leaves every file and directory that
\* was there before the call as it was, whatever it returns, and each of
\* description, HEAD and config is absent at the moment create writes it.
C13_NoPriorDataLost ==
    /\ \A i \in Completed :
          hist[i].op = "create" =>
              \A q \in Paths : ~NothingAt(hist[i].pre, q) => hist[i].post[q] = hist[i].pre[q]
    /\ \A p \in AllProcs :
          /\ pc[p] = "description" => NothingAt(fs, DescriptionPath)
          /\ pc[p] = "HEAD" => NothingAt(fs, HeadPath)
          /\ pc[p] = "config" => NothingAt(fs, ConfigPath)

C13_Witness ==
    \E p \in AllProcs :
        /\ cur[p].op = "create"
        /\ pc[p] = "config"
        /\ DirAt(cur[p].pre, Gitdir)
        /\ FileAt(fs, HeadPath)

\* Call i is a create that failed with Io after it had made at least one
\* entry of gitdir, and call i+1 is the next create on the path.
CreateAfterPartialCreate(i) ==
    /\ i + 1 \in Completed
    /\ hist[i].op = "create" /\ hist[i + 1].op = "create"
    /\ hist[i].res.kind = "Io"
    /\ Children(hist[i].pre, Gitdir) = {}
    /\ Children(hist[i].post, Gitdir) # {}
    /\ hist[i + 1].pre = hist[i].post

VersionEntries(doc) ==
    { e \in IniParse(doc, 1, "default", {}).map :
        e.section = "core" /\ e.key = "repositoryformatversion" }

\* Validation with the Ini provider of a worktree that is a directory, whose
\* config file was read and parsed.
ValidatedLoadedConfig(h) ==
    /\ h.op = "new" /\ h.prov = "Ini"
    /\ DirAt(h.pre, Worktree)
    /\ FileAt(h.pre, ConfigPath)
    /\ ~h.iofail
    /\ IniParse(h.pre[ConfigPath].data, 1, "default", {}).ok

FieldAbsent(doc) == VersionEntries(doc) = {}

\* The field has a value, and the value is not a string of digits.
FieldNotUnsigned(doc) ==
    \E e \in VersionEntries(doc) :
        /\ e.value # None
        /\ \/ Len(e.value[1]) = 0
           \/ \E k \in 1..Len(e.value[1]) :
                 e.value[1][k] \notin {"0", "1", "2", "3", "4", "5", "6", "7", "8", "9"}

C19_NoGitdirIsConfigFileMissing ==
    \A i \in Completed :
        hist[i].op = "new" =>
            /\ (hist[i].prov = "Ini" /\ DirAt(hist[i].pre, Worktree)
                  /\ NothingAt(hist[i].pre, Gitdir)) =>
                  hist[i].res = ConfigFileMissing
            /\ hist[i].res.kind = "NotGitRepository" <=> ~DirAt(hist[i].pre, Worktree)

C19_Witness ==
    \E i \in Completed :
        /\ hist[i].op = "new" /\ hist[i].prov = "Ini"
        /\ DirAt(hist[i].pre, Worktree)
        /\ NothingAt(hist[i].pre, Gitdir)
        /\ hist[i].res.kind = "ConfigFileMissing"

\* create found the worktree a directory and something other than a directory
\* at the gitdir path.
GitdirNotADirectory(f) ==
    DirAt(f, Worktree) /\ ~NothingAt(f, Gitdir) /\ ~DirAt(f, Gitdir)

\* C20: create on a worktree whose .git is no directory returns Io, from the
\* directory listing, and writes nothing.
C20_GitdirFileIsIo ==
    \A i \in Completed :
        (hist[i].op = "create" /\ GitdirNotADirectory(hist[i].pre)) =>
            /\ hist[i].res.kind = "Io"
            /\ hist[i].at = "read_dir"
            /\ hist[i].post = hist[i].pre

C20_Witness ==
    \E i \in Completed :
        /\ hist[i].op = "create"
        /\ FileAt(hist[i].pre, Gitdir)
        /\ hist[i].res = Io("NotADirectory")

\* The statements of create up to the end of its pre-flight checks.
PreflightStatements ==
    {"worktree_exists", "worktree_is_dir", "gitdir_exists", "read_dir", "ensure_worktree"}

\* Calls i and j are creates of two processes that both passed the pre-flight
\* checks while gitdir held no entry: before either had written into it.
RacedCreates(i, j) ==
    /\ hist[i].op = "create" /\ hist[j].op = "create"
    /\ hist[i].proc # hist[j].proc
    /\ hist[i].at \notin PreflightStatements
    /\ hist[j].at \notin PreflightStatements
    /\ Children(hist[i].checked, Gitdir) = {}
    /\ Children(hist[j].checked, Gitdir) = {}

\* C14: two concurrent creates can both pass the pre-flight check before
\* either writes into gitdir (the witness), and then neither returns NotEmpty:
\* each goes through all of the scaffold and default-file writes and returns a
\* repository, unless one of its filesystem operations fails.
C14_RaceBothWrite ==
    \A i \in Completed : \A j \in Completed :
        RacedCreates(i, j) =>
            /\ hist[i].res.kind # "NotEmpty"
            /\ ~hist[i].iofail => hist[i].at = "getuint" /\ hist[i].res.kind = "Ok"

C14_Witness ==
    /\ \E i \in Completed : \E j \in Completed :
          /\ RacedCreates(i, j)
          /\ hist[i].res.kind = "Ok" /\ hist[j].res.kind = "Ok"
          /\ hist[i].at = "getuint" /\ hist[j].at = "getuint"
          /\ DirAt(hist[i].pre, Gitdir) /\ DirAt(hist[j].pre, Gitdir)
    /\ GitdirState(fs) = ScaffoldLayout

CompletedCreates == { i \in Completed : hist[i].op = "create" }

\* The creates of the behaviour ran on a path that was absent at first, and
\* no filesystem operation of a completed one failed.
CreatesOnAbsentPath ==
    /\ CompletedCreates # {}
    /\ \E i \in Completed : NothingAt(hist[i].pre, Worktree)
    /\ \A i \in CompletedCreates : ~hist[i].iofail

NoCreateRunning == \A p \in AllProcs : cur[p].op # "create"

\* C18: concurrent creates on an initially absent path, without I/O failure,
\* each return a repository or NotEmpty; once all have returned, at least one
\* returned a repository and gitdir holds exactly the four scaffold directories
\* and the three default files with their default contents.
C18_ConcurrentCreatesConverge ==
    CreatesOnAbsentPath =>
        /\ \A i \in CompletedCreates : hist[i].res.kind \in {"Ok", "NotEmpty"}
        /\ NoCreateRunning =>
              /\ \E i \in CompletedCreates : hist[i].res.kind = "Ok"
              /\ GitdirState(fs) = ScaffoldLayout

C18_Witness ==
    /\ CreatesOnAbsentPath
    /\ NoCreateRunning
    /\ \E i \in CompletedCreates : \E j \in CompletedCreates :
          /\ hist[i].proc # hist[j].proc
          /\ NothingAt(hist[i].pre, Worktree)
          /\ ~NothingAt(hist[j].pre, Worktree)
          /\ NothingAt(hist[j].pre, BranchesPath)
          /\ hist[i].res.kind = "Ok"
          /\ hist[j].res.kind = "NotEmpty"

\* The state of section 4.5 a create is in at statement st: 0 Start,
\* 1 WorktreeChecked, 2 ScaffoldCreated, 3 DefaultsWritten.
Phase(st) ==
    IF st \in PreflightStatements THEN 0
    ELSE IF st \in {"branches", "objects", "tags", "heads"} THEN 1
    ELSE IF st \in {"description", "HEAD", "config"} THEN 2
    ELSE 3

Creating(p) == cur[p].op = "create"

ScaffoldDirPaths == {BranchesPath, ObjectsPath, TagsPath, HeadsPath}

\* In ScaffoldCreated the four directories are there; in DefaultsWritten the
\* three files are, as create writes them.
C17_PhaseHolds ==
    \A p \in AllProcs :
        Creating(p) =>
            /\ Phase(pc[p]) >= 2 => \A d \in ScaffoldDirPaths : DirAt(fs, d)
            /\ Phase(pc[p]) = 3 => \A q \in DefaultFilePaths : fs[q] = ScaffoldLayout[q]

\* A returned create returned once, from the statement it was at; a
\* repository is returned from DefaultsWritten only.
C17_OneOutcome ==
    \A i \in Completed :
        hist[i].op = "create" =>
            /\ hist[i].res.kind = "Ok" => hist[i].at = "getuint"
            /\ hist[i].res.kind \in
                  {"Ok", "NotADirectory", "NotEmpty", "Io", "NotGitRepository",
                   "ConfigFileMissing", "InvalidConfig", "UnsupportedVersion"}

\* What one step may do: a create stays in its state or moves to the next, or
\* returns, which adds its one outcome; a default file changes only in
\* ScaffoldCreated, with the four directories there; a process whose call has
\* returned changes nothing until it is called again.
C17_StepOrder ==
    /\ \A p \in AllProcs :
        /\ (Creating(p) /\ pc'[p] # pc[p]) =>
              IF pc'[p] = "idle"
              THEN /\ Len(hist') = Len(hist) + 1
                   /\ hist'[Len(hist')].proc = p
                   /\ hist'[Len(hist')].at = pc[p]
              ELSE /\ Phase(pc'[p]) \in {Phase(pc[p]), Phase(pc[p]) + 1}
                   /\ hist' = hist
        /\ (pc[p] = "idle" /\ pc'[p] # "idle") =>
              /\ pc'[p] \in {"worktree_exists", "try_from"}
              /\ fs' = fs /\ hist' = hist
        /\ (\E q \in DefaultFilePaths : fs'[q] # fs[q]) =>
              \E r \in AllProcs :
                  /\ Creating(r) /\ Phase(pc[r]) = 2
                  /\ \A d \in ScaffoldDirPaths : DirAt(fs, d)
    /\ (\A r \in AllProcs : pc[r] = "idle") => fs' = fs

\* C17: every create ends, in one outcome, and takes its steps in the order
\* Start, WorktreeChecked, ScaffoldCreated, DefaultsWritten, Validated: no
\* default file before the four directories, no validation before the three
\* files, nothing after an error.
C17_CreateStateMachine ==
    /\ []C17_PhaseHolds
    /\ []C17_OneOutcome
    /\ [][C17_StepOrder]_vars
    /\ \A p \in AllProcs : Creating(p) ~> ~Creating(p)

C17_Witness ==
    \E i \in Completed :
        /\ hist[i].op = "create"
        /\ hist[i].at = "getuint"
        /\ hist[i].res.kind = "Ok"
        /\ NothingAt(hist[i].pre, Worktree)

====
